---- MODULE Spec2Model ----
(***************************************************************************)
(* Collaborative widget locking: WidgetLockingService over                 *)
(* CoreWidgetLocking, the durable store (widget_locks, user_sessions,      *)
(* collaboration_events) and the shared cache.                             *)
(*                                                                         *)
(* Time is in seconds.  The durable store is modelled by its COMMITTED     *)
(* content: a handler works on a transaction-local copy and only what it   *)
(* commits becomes visible; DatabaseManager.session closes the session     *)
(* without committing, which rolls uncommitted work back.                  *)
(***************************************************************************)
EXTENDS Integers, Sequences, FiniteSets, TLC

\* ---------------------------------------------------------------- bounds
MaxTime == 60
TickStep == 30
MaxSessions == 3
MaxCalls == 3
ReaperHorizon == 600
AbandonHorizon == 120
StatusHorizon == 33
MaxEditCalls == 5
MaxLatency == 2

\* ------------------------------------------------------ program constants
MinLockDuration == 30
DefaultLockDuration == 60
MaxLockDuration == 300
LockExpirationThreshold == 120
SessionTimeout == 300
LockCacheTtlCap == 30
StatusCacheTtl == 2
SessionsCacheTtl == 3
DefaultCleanupInterval == 30
MinCleanupInterval == 10

Users == {"A", "B"}
Widgets == {"w1", "w2"}
Dashboards == {"d1", "d2"}
Leases == {MinLockDuration, DefaultLockDuration}

VARIABLES
  now,        \* datetime.now(timezone.utc), in seconds
  locks,      \* widget_locks table: widget_id -> row (committed)
  sessions,   \* user_sessions table: session_id -> row (committed)
  events,     \* collaboration_events table (committed), as a set
  lockCache,  \* shared cache, keys widget_lock:<widget_id>
  last,       \* the last completed service call and its result
  calls,      \* number of service calls made so far
  pc,         \* per caller: position inside an interleaved call
  tx          \* per caller: what its open store session has loaded

vars == <<now, locks, sessions, events, lockCache, last, calls, pc, tx>>

\* ------------------------------------------------------------ data model

Range(s) == {s[i] : i \in 1..Len(s)}

Min(a, b) == IF a < b THEN a ELSE b

Restrict(f, S) == [x \in S |-> f[x]]

EmptyMap == [x \in {} |-> 0]

Put(f, k, v) == [x \in DOMAIN f \cup {k} |-> IF x = k THEN v ELSE f[x]]

\* a lease that never runs out
NeverExpired(row, t) == FALSE

\* WidgetLock.is_expired
IsExpired(row, t) == t > row.expires_at

\* the seconds to expires_at, not floored
RawRemaining(row, t) == row.expires_at - t

\* WidgetLock.time_remaining
TimeRemaining(row, t) ==
  IF row.expires_at - t > 0 THEN row.expires_at - t ELSE 0

\* the widget has no live lease: no row, a released row, or a row whose
\* expires_at is in the past
DeadLease(lk, w, t) ==
  \/ w \notin DOMAIN lk
  \/ ~lk[w].is_active
  \/ t > lk[w].expires_at

\* select(WidgetLock).where(widget_id == w, is_active == True)
GetActiveWidgetLock(lk, w) ==
  IF w \in DOMAIN lk /\ lk[w].is_active THEN {lk[w]} ELSE {}

\* select(UserSession).where(session_id == sid, is_active)
GetUserSession(ss, sid) ==
  IF sid \in DOMAIN ss /\ ss[sid].is_active THEN {sid} ELSE {}

\* select(UserSession).where(dashboard_id == d, user_id == u, is_active)
ActiveSessionsOf(ss, d, u) ==
  {s \in DOMAIN ss : ss[s].dashboard_id = d /\ ss[s].user_id = u /\ ss[s].is_active}

\* select(UserSession).where(dashboard_id == d, user_id == u, is_active == False)
InactiveSessionsOf(ss, d, u) ==
  {s \in DOMAIN ss : ss[s].dashboard_id = d /\ ss[s].user_id = u /\ ~ss[s].is_active}

\* select(UserSession).where(dashboard_id == d, user_id == u)
AnySessionsOf(ss, d, u) ==
  {s \in DOMAIN ss : ss[s].dashboard_id = d /\ ss[s].user_id = u}

\* uuid.uuid4(): a session id no row has used
FreshSessionId(ss) == Cardinality(DOMAIN ss) + 1

\* the shared cache: an entry is readable until its TTL has run out
CacheGet(c, k, t) == IF k \in DOMAIN c /\ t < c[k].expire_at THEN {c[k]} ELSE {}

\* a delete that leaves the entry in the cache
CacheKeep(c, k) == c

\* cache.delete(key)
CacheDelete(c, k) == Restrict(c, DOMAIN c \ {k})

\* cache.set(key, value, expire=ttl)
CacheSet(c, k, v) == [x \in DOMAIN c \cup {k} |-> IF x = k THEN v ELSE c[x]]

\* the WidgetLockSchema dict the service caches for a lock row
LockCacheEntry(row, t, ttl) ==
  [user_id |-> row.user_id, time_remaining |-> TimeRemaining(row, t),
   expire_at |-> t + ttl]

\* the record of a completed call; again: it repeats the call before it
Call(op, u, d, w, ok) ==
  [op |-> op, user |-> u, dashboard |-> d, widget |-> w, ok |-> ok,
   again |-> (last.op = op /\ last.user = u /\ last.dashboard = d
              /\ last.widget = w)]

\* ------------------------------------------------------ CoreWidgetLocking

\* the row acquire_widget_lock writes (insert, or every column of the update)
NewLockRow(d, sid, u, t, dur) ==
  [dashboard_id |-> d, session_id |-> sid, user_id |-> u, locked_at |-> t,
   expires_at |-> t + dur, last_heartbeat |-> t, is_active |-> TRUE]

NewSessionRow(d, u, t) ==
  [dashboard_id |-> d, user_id |-> u, last_activity |-> t, is_active |-> TRUE,
   locked_widgets |-> <<>>]

\* get_or_create_user_session on the store content ss.  scalar_one_or_none
\* raises on more than one active row; an existing row is touched and only
\* flushed; a new row is added and COMMITTED at once.
GetOrCreateUserSession(ss, d, u, t) ==
  LET act == ActiveSessionsOf(ss, d, u) IN
  IF Cardinality(act) > 1
  THEN [raised |-> TRUE, sessions |-> ss, sid |-> 0, committed |-> FALSE]
  ELSE IF act # {}
  THEN LET s == CHOOSE x \in act : TRUE IN
       [raised |-> FALSE, sessions |-> [ss EXCEPT ![s].last_activity = t],
        sid |-> s, committed |-> FALSE]
  ELSE LET s == FreshSessionId(ss) IN
       [raised |-> FALSE, sessions |-> Put(ss, s, NewSessionRow(d, u, t)),
        sid |-> s, committed |-> TRUE]

\* step 2 of acquire_widget_lock: an active, unexpired row of another user
AcquireBlocked(lk, w, u, t) ==
  /\ w \in DOMAIN lk
  /\ lk[w].is_active
  /\ t < lk[w].expires_at
  /\ lk[w].user_id # u

\* a tracking list that takes the widget on every acquire
TrackAlways(srow, w, t) ==
  [srow EXCEPT !.locked_widgets = Append(@, w), !.last_activity = t]

\* step 5 of acquire_widget_lock: the session's tracking list
TrackWidget(srow, w, t) ==
  IF w \notin Range(srow.locked_widgets)
  THEN [srow EXCEPT !.locked_widgets = Append(@, w), !.last_activity = t]
  ELSE srow

\* acquire_widget_lock run alone on store content (lk, ss): what it leaves
\* committed, and whether it raised
CoreAcquireWidgetLock(lk, ss, u, d, w, dur, t) ==
  LET g == GetOrCreateUserSession(ss, d, u, t) IN
  IF AcquireBlocked(lk, w, u, t) \/ g.raised
  THEN [raised |-> TRUE, locks |-> lk, sessions |-> ss, sid |-> 0]
  ELSE [raised |-> FALSE,
        locks |-> Put(lk, w, NewLockRow(d, g.sid, u, t, dur)),
        sessions |-> [g.sessions EXCEPT ![g.sid] = TrackWidget(@, w, t)],
        sid |-> g.sid]

\* refresh_widget_lock followed by the service's session touch and commit
CoreRefreshWidgetLock(lk, ss, w, dur, t) ==
  LET row == lk[w]
      lk2 == [lk EXCEPT ![w].expires_at = t + dur, ![w].last_heartbeat = t]
      own == GetUserSession(ss, row.session_id)
  IN [locks |-> lk2,
      sessions |-> [s \in DOMAIN ss |->
                      IF s \in own THEN [ss[s] EXCEPT !.last_activity = t]
                      ELSE ss[s]]]

\* [w for w in locked_widgets if w != widget_id]
RemoveWidget(seq, w) == SelectSeq(seq, LAMBDA x : x # w)

\* a release that finds the row of the widget, released or not
ReleaseTargetAnyRow(lk, d, w) ==
  {lk[x] : x \in {y \in DOMAIN lk : y = w /\ lk[y].dashboard_id = d}}

\* a release that finds the active row of the widget on any dashboard
ReleaseTargetAnyDashboard(lk, d, w) ==
  {lk[x] : x \in {y \in DOMAIN lk : y = w /\ lk[y].is_active}}

\* release_widget_lock, step 1: select(WidgetLock).where(widget_id == w,
\* dashboard_id == d, is_active == True)
ReleaseTarget(lk, d, w) ==
  {lk[x] : x \in {y \in DOMAIN lk : y = w /\ lk[y].dashboard_id = d
                                     /\ lk[y].is_active}}

\* a release that does not look at the owner
ReleaseOpenToAll(row, u) == FALSE

\* release_widget_lock, step 2: the row belongs to another user
ReleaseDenied(row, u) == row.user_id # u

\* release_widget_lock: "none" no active row for (widget, dashboard),
\* "denied" the row is another user's, "released" otherwise
CoreReleaseWidgetLock(lk, ss, u, d, w) ==
  IF ReleaseTarget(lk, d, w) = {}
  THEN [outcome |-> "none", locks |-> lk, sessions |-> ss]
  ELSE IF ReleaseDenied(lk[w], u)
  THEN [outcome |-> "denied", locks |-> lk, sessions |-> ss]
  ELSE LET own == GetUserSession(ss, lk[w].session_id) IN
       [outcome |-> "released",
        locks |-> [lk EXCEPT ![w].is_active = FALSE],
        sessions |-> [s \in DOMAIN ss |->
                        IF s \in own /\ w \in Range(ss[s].locked_widgets)
                        THEN [ss[s] EXCEPT !.locked_widgets = RemoveWidget(@, w)]
                        ELSE ss[s]]]

\* cleanup_stale_sessions_and_locks: the content of the reaper's transaction
\* when it returns (flushed, not committed), and the two counts
CoreCleanup(lk, ss, t) ==
  LET expired == {w \in DOMAIN lk : lk[w].expires_at <= t}
      lk1 == Restrict(lk, DOMAIN lk \ expired)
      stale == {s \in DOMAIN ss : ss[s].last_activity <= t - SessionTimeout
                                   /\ ss[s].is_active}
      lk2 == Restrict(lk1, {w \in DOMAIN lk1 : lk1[w].session_id \notin stale})
  IN [locks |-> lk2,
      sessions |-> [s \in DOMAIN ss |->
                      IF s \in stale THEN [ss[s] EXCEPT !.is_active = FALSE]
                      ELSE ss[s]],
      expired_locks_count |-> Cardinality(expired),
      stale_sessions_count |-> Cardinality(stale)]

\* a store session whose close keeps what was flushed
SessionKeepsFlushed(committedState, txState, didCommit) == txState

\* DatabaseManager.session: leaving the block closes the session; work that
\* was not committed inside the block is rolled back
SessionClose(committedState, txState, didCommit) ==
  IF didCommit THEN txState ELSE committedState

Init ==
  /\ now = 0
  /\ locks = EmptyMap
  /\ sessions = EmptyMap
  /\ events = {}
  /\ lockCache = EmptyMap
  /\ last = [op |-> "none", user |-> "A", dashboard |-> "d1", widget |-> "w1",
             ok |-> FALSE, again |-> FALSE]
  /\ calls = 0
  /\ pc = [u \in Users |-> "idle"]
  /\ tx = [u \in Users |-> EmptyMap]

\* ---------------------------------------- WidgetLockingService, sequential
\* One service call at a time: every handler below is the whole call.

Idle == \A u \in Users : pc[u] = "idle"

\* the cached lock makes acquire_widget_lock answer "locked" at once
CacheDenies(c, w, t) == \E e \in CacheGet(c, w, t) : e.time_remaining > 0

\* the service's own store check before it calls CoreWidgetLocking
ServiceDenies(lk, w, t) == \E r \in GetActiveWidgetLock(lk, w) : ~IsExpired(r, t)

\* an acquire that asks the store only when the cache holds an entry
CacheAloneDenies(c, lk, w, t) ==
  CacheDenies(c, w, t) \/ (CacheGet(c, w, t) # {} /\ ServiceDenies(lk, w, t))

\* lines 79-103 of acquire_widget_lock: the cached lock denies, and so does
\* the store's active, unexpired row
AcquireDenied(c, lk, w, t) == CacheDenies(c, w, t) \/ ServiceDenies(lk, w, t)

\* a denial that names the user of the cached entry only
DenialNamesCached(c, lk, w, t) ==
  IF CacheGet(c, w, t) # {} THEN (CHOOSE e \in CacheGet(c, w, t) : TRUE).user_id
  ELSE "none"

\* the user the message of a denial names: the cached lock's (line 90), else
\* the store row's (line 102, or the core's ValueError passed on, line 167);
\* "none" when the widget has no active row
DenialNames(c, lk, w, t) ==
  IF CacheDenies(c, w, t) THEN (CHOOSE e \in CacheGet(c, w, t) : TRUE).user_id
  ELSE IF GetActiveWidgetLock(lk, w) # {} THEN lk[w].user_id
  ELSE "none"

AcquireLock(u, d, w, dur) ==
  LET r == CoreAcquireWidgetLock(locks, sessions, u, d, w, dur, now)
      denied == AcquireDenied(lockCache, locks, w, now)
  IN /\ Idle
     /\ (~denied /\ ActiveSessionsOf(sessions, d, u) = {})
          => Cardinality(DOMAIN sessions) < MaxSessions
     /\ IF denied \/ r.raised
        THEN /\ last' = Call("acquire", u, d, w, FALSE)
                          @@ [named |-> DenialNames(lockCache, locks, w, now)]
             /\ UNCHANGED <<locks, sessions, lockCache>>
        ELSE /\ locks' = r.locks
             /\ sessions' = r.sessions
             /\ lockCache' = CacheSet(lockCache, w,
                               LockCacheEntry(r.locks[w], now,
                                              Min(dur, LockCacheTtlCap)))
             \* the lock_acquired event is flushed in a session that is
             \* closed without a commit
             /\ last' = Call("acquire", u, d, w, TRUE)
                          @@ [session_id |-> r.locks[w].session_id,
                              expires_at |-> r.locks[w].expires_at]
     /\ UNCHANGED <<now, events, pc, tx>>

\* a heartbeat open to every user
RefreshOpenToAll(row, u) == TRUE

\* step 5 of refresh_widget_lock: the caller owns the row
RefreshOwned(row, u) == row.user_id = u

\* a heartbeat that does not look at the expiry
RefreshAllowedLate(lk, w, u, t) ==
  \E r \in GetActiveWidgetLock(lk, w) : RefreshOwned(r, u)

\* steps 2-6 of refresh_widget_lock: an active row, owned by the caller,
\* not expired
RefreshAllowed(lk, w, u, t) ==
  \E r \in GetActiveWidgetLock(lk, w) : RefreshOwned(r, u) /\ ~IsExpired(r, t)

RefreshLock(u, d, w) ==
  LET r == CoreRefreshWidgetLock(locks, sessions, w, LockExpirationThreshold, now)
  IN /\ Idle
     /\ IF RefreshAllowed(locks, w, u, now)
        THEN /\ locks' = r.locks
             /\ sessions' = r.sessions
             /\ lockCache' = CacheSet(lockCache, w,
                               LockCacheEntry(r.locks[w], now, LockCacheTtlCap))
             /\ last' = Call("refresh", u, d, w, TRUE)
        ELSE /\ last' = Call("refresh", u, d, w, FALSE)
             /\ UNCHANGED <<locks, sessions, lockCache>>
     /\ UNCHANGED <<now, events, pc, tx>>

\* _cache_key_widget_status: one key per widget, whoever asks
StatusKey(w) == IF w = "w1" THEN "status:w1" ELSE "status:w2"

\* _cache_key_dashboard_sessions: one key per dashboard
SessionsKey(d) == IF d = "d1" THEN "sessions:d1" ELSE "sessions:d2"

LockReleased(d, w, u) ==
  [event_type |-> "lock_released", dashboard_id |-> d, widget_id |-> w,
   user_id |-> u]

ReleaseLock(u, d, w) ==
  LET r == CoreReleaseWidgetLock(locks, sessions, u, d, w) IN
  /\ Idle
  /\ IF r.outcome = "denied"
     THEN /\ last' = Call("release", u, d, w, FALSE)
          /\ UNCHANGED <<locks, sessions, lockCache, events>>
     ELSE /\ locks' = r.locks
          /\ sessions' = r.sessions
          /\ lockCache' = CacheDelete(CacheDelete(lockCache, w), StatusKey(w))
          /\ events' = events \cup {LockReleased(d, w, u)}
          /\ last' = Call("release", u, d, w, TRUE)
  /\ UNCHANGED <<now, pc, tx>>

StartEditing(u, d) ==
  LET g == GetOrCreateUserSession(sessions, d, u, now) IN
  /\ Idle
  /\ ActiveSessionsOf(sessions, d, u) = {}
       => Cardinality(DOMAIN sessions) < MaxSessions
  /\ sessions' = SessionClose(sessions, g.sessions, g.committed)
  /\ lockCache' = IF g.raised THEN lockCache
                  ELSE CacheDelete(lockCache, SessionsKey(d))
  /\ last' = Call("start", u, d, "w1", ~g.raised)
  /\ UNCHANGED <<now, locks, events, pc, tx>>

\* the orphaned-lock sweep of stop_dashboard_editing (flushed only)
OrphanSweep(lk, d, u) ==
  [w \in DOMAIN lk |->
     IF lk[w].dashboard_id = d /\ lk[w].user_id = u /\ lk[w].is_active
     THEN [lk[w] EXCEPT !.is_active = FALSE] ELSE lk[w]]

StopEditing(u, d) ==
  LET act == ActiveSessionsOf(sessions, d, u)
      inact == InactiveSessionsOf(sessions, d, u)
  IN /\ Idle
     /\ IF Cardinality(act) > 1
        THEN /\ last' = Call("stop", u, d, "w1", FALSE)
             /\ UNCHANGED <<locks, sessions>>
        ELSE IF act # {}
        THEN /\ sessions' = [s \in DOMAIN sessions |->
                               IF s \in act
                               THEN [sessions[s] EXCEPT !.is_active = FALSE]
                               ELSE sessions[s]]
             /\ last' = Call("stop", u, d, "w1", TRUE)
             /\ UNCHANGED locks
        ELSE IF Cardinality(inact) > 1
        THEN /\ last' = Call("stop", u, d, "w1", FALSE)
             /\ UNCHANGED <<locks, sessions>>
        ELSE IF inact # {}
        THEN /\ last' = Call("stop", u, d, "w1", TRUE)
             /\ UNCHANGED <<locks, sessions>>
        ELSE /\ locks' = SessionClose(locks, OrphanSweep(locks, d, u), FALSE)
             /\ last' = Call("stop", u, d, "w1", TRUE)
             /\ UNCHANGED sessions
     /\ lockCache' = IF Cardinality(act) = 1
                     THEN CacheDelete(lockCache, SessionsKey(d))
                     ELSE lockCache
     /\ UNCHANGED <<now, events, pc, tx>>

RefreshEditing(u, d) ==
  LET act == ActiveSessionsOf(sessions, d, u)
      any == AnySessionsOf(sessions, d, u)
      touched == IF Cardinality(act) = 1 THEN act
                 ELSE IF act = {} /\ Cardinality(any) = 1 THEN any
                 ELSE {}
  IN /\ Idle
     /\ sessions' = [s \in DOMAIN sessions |->
                       IF s \in touched
                       THEN [sessions[s] EXCEPT !.is_active = TRUE,
                                                !.last_activity = now]
                       ELSE sessions[s]]
     /\ lockCache' = IF Cardinality(act) = 1
                     THEN CacheDelete(lockCache, SessionsKey(d))
                     ELSE lockCache
     /\ last' = Call("refresh_editing", u, d, "w1", touched # {})
     /\ UNCHANGED <<now, locks, events, pc, tx>>

\* cleanup_stale_sessions_and_locks of the service.  The tag deletes that
\* follow remove nothing: no entry of the shared cache is written with tags.
RunCleanup ==
  LET r == CoreCleanup(locks, sessions, now) IN
  /\ Idle
  /\ locks' = SessionClose(locks, r.locks, FALSE)
  /\ sessions' = SessionClose(sessions, r.sessions, FALSE)
  /\ last' = Call("cleanup", "A", "d1", "w1", TRUE)
  /\ UNCHANGED <<now, events, lockCache, pc, tx>>

\* time passes by dt seconds; entries whose TTL has run out leave the cache
Advance(dt, horizon) ==
  /\ Idle
  /\ now + dt <= horizon
  /\ now' = now + dt
  /\ lockCache' = Restrict(lockCache,
                    {k \in DOMAIN lockCache : now + dt < lockCache[k].expire_at})
  /\ UNCHANGED <<locks, sessions, events, last, calls, pc, tx>>

Tick == Advance(TickStep, MaxTime)

\* a service call, counted against the bound on calls
Counted(call) ==
  /\ calls < MaxCalls
  /\ call
  /\ calls' = calls + 1

Next ==
  \/ \E u \in Users, d \in Dashboards, w \in Widgets, dur \in Leases :
       Counted(AcquireLock(u, d, w, dur))
  \/ \E u \in Users, d \in Dashboards, w \in Widgets :
       Counted(RefreshLock(u, d, w))
  \/ \E u \in Users, d \in Dashboards, w \in Widgets :
       Counted(ReleaseLock(u, d, w))
  \/ \E u \in Users, d \in Dashboards : Counted(StartEditing(u, d))
  \/ \E u \in Users, d \in Dashboards : Counted(StopEditing(u, d))
  \/ \E u \in Users, d \in Dashboards : Counted(RefreshEditing(u, d))
  \/ Counted(RunCleanup)
  \/ Tick

Spec == Init /\ [][Next]_vars

\* ------------------------------------------------------------ the reaper
\* Sessions are opened, locks taken and heartbeats sent; time passes in whole
\* session timeouts; the reaper runs.

ReaperTick == Advance(SessionTimeout, ReaperHorizon)

ReaperNext ==
  \/ \E u \in Users, d \in Dashboards, w \in Widgets, dur \in Leases :
       Counted(AcquireLock(u, d, w, dur))
  \/ \E u \in Users, d \in Dashboards, w \in Widgets :
       Counted(RefreshLock(u, d, w))
  \/ \E u \in Users, d \in Dashboards : Counted(StartEditing(u, d))
  \/ \E u \in Users, d \in Dashboards : Counted(RefreshEditing(u, d))
  \/ Counted(RunCleanup)
  \/ ReaperTick

ReaperSpec == Init /\ [][ReaperNext]_vars

\* ------------------------------------------------- an abandoned lock
\* User A makes one AcquireLock call and then goes silent; user B keeps
\* calling AcquireLock; the reaper runs at any time.  A's call is made early
\* enough for the clock of the model to pass the lease's expiry.
AbandonTick == Advance(TickStep, AbandonHorizon)

OnlyCall(u, d, w, dur) ==
  /\ calls = 0
  /\ now + dur + TickStep <= AbandonHorizon
  /\ Counted(AcquireLock(u, d, w, dur))

Retry(u, w) ==
  /\ \E d \in Dashboards : AcquireLock(u, d, w, DefaultLockDuration)
  /\ UNCHANGED calls

ReaperCycle == RunCleanup /\ UNCHANGED calls

AbandonNext ==
  \/ \E d \in Dashboards, w \in Widgets, dur \in Leases : OnlyCall("A", d, w, dur)
  \/ \E w \in Widgets : Retry("B", w)
  \/ ReaperCycle
  \/ AbandonTick

\* time advances and B keeps retrying on every widget
AbandonSpec ==
  /\ Init
  /\ [][AbandonNext]_vars
  /\ WF_vars(AbandonTick)
  /\ \A w \in Widgets : WF_vars(Retry("B", w))

\* ------------------------------------------------ a lease, end to end
\* The clock readings at which the calls of the lease scenario are made.
ScenarioTimes == {0, 30, 40, 95, 96}

\* the clock moves on to a later reading of the scenario
LeaseTick ==
  /\ Idle
  /\ \E t \in ScenarioTimes :
       /\ t > now
       /\ now' = t
       /\ lockCache' = Restrict(lockCache,
                         {k \in DOMAIN lockCache : t < lockCache[k].expire_at})
  /\ UNCHANGED <<locks, sessions, events, last, calls, pc, tx>>

\* every lock is taken with the default lease of 60 seconds
LeaseNext ==
  \/ \E u \in Users, w \in Widgets :
       Counted(AcquireLock(u, "d1", w, DefaultLockDuration))
  \/ \E u \in Users, w \in Widgets : Counted(RefreshLock(u, "d1", w))
  \/ LeaseTick

LeaseSpec == Init /\ [][LeaseNext]_vars

\* ------------------------------------------------ any cache content
\* The shared cache is outside the service's control: it may hold, for any
\* widget, an entry that names any owner, stale or not.
CacheHolds(w, u, rem) ==
  /\ Idle
  /\ lockCache' = CacheSet(lockCache, w,
                     [user_id |-> u, time_remaining |-> rem,
                      expire_at |-> now + LockCacheTtlCap])
  /\ UNCHANGED <<now, locks, sessions, events, last, calls, pc, tx>>

CacheNext ==
  \/ \E u \in Users, w \in Widgets, dur \in Leases :
       Counted(AcquireLock(u, "d1", w, dur))
  \/ \E u \in Users, w \in Widgets : Counted(RefreshLock(u, "d1", w))
  \/ \E u \in Users, w \in Widgets : Counted(ReleaseLock(u, "d1", w))
  \/ \E w \in Widgets, u \in Users, rem \in {0, MinLockDuration} :
       CacheHolds(w, u, rem)
  \/ Tick

CacheSpec == Init /\ [][CacheNext]_vars

\* ------------------------------------------------------ status polls
\* the response for a widget without an active, unexpired lock
Unlocked ==
  [is_locked |-> FALSE, locked_by_user_id |-> "none", time_remaining |-> 0,
   can_acquire |-> TRUE]

\* get_widget_lock_status on a cache miss: the response built from the store
StatusFromStore(lk, w, u, t) ==
  LET rows == GetActiveWidgetLock(lk, w) IN
  IF rows = {} \/ (\E r \in rows : t > r.expires_at)
  THEN Unlocked
  ELSE LET r == CHOOSE x \in rows : TRUE IN
       [is_locked |-> TRUE, locked_by_user_id |-> r.user_id,
        time_remaining |-> TimeRemaining(r, t),
        can_acquire |-> (r.user_id = u)]

\* get_widget_lock_status: a cached status is returned as it is; otherwise
\* the status is built from the store and cached for 2 seconds
GetLockStatus(u, w) ==
  LET hit == CacheGet(lockCache, StatusKey(w), now)
      st == IF hit # {} THEN (CHOOSE e \in hit : TRUE).status
            ELSE StatusFromStore(locks, w, u, now)
  IN /\ Idle
     /\ lockCache' = IF hit # {} THEN lockCache
                     ELSE CacheSet(lockCache, StatusKey(w),
                                   [status |-> st,
                                    expire_at |-> now + StatusCacheTtl])
     /\ last' = [op |-> "status", user |-> u, dashboard |-> "d1", widget |-> w,
                 ok |-> TRUE, again |-> (last.op = "status" /\ last.widget = w),
                 status |-> st, at |-> now]
     /\ UNCHANGED <<now, locks, sessions, events, pc, tx>>

\* leases run out TickStep seconds apart; in the seconds after such a
\* moment polls come a second apart, inside and outside the status TTL
StatusTick ==
  \/ (now % TickStep <= StatusCacheTtl /\ Advance(1, StatusHorizon))
  \/ (now % TickStep = 0 /\ Advance(TickStep, StatusHorizon))

StatusNext ==
  \/ \E u \in Users, w \in Widgets :
       Counted(AcquireLock(u, "d1", w, MinLockDuration))
  \/ \E u \in Users, w \in Widgets : Counted(ReleaseLock(u, "d1", w))
  \/ \E u \in Users, w \in Widgets : Counted(GetLockStatus(u, w))
  \/ StatusTick

StatusSpec == Init /\ [][StatusNext]_vars

\* ----------------------------------------------------- store failures
\* A call in which one store operation fails: the step named is the one
\* that raises.  The call is made only when it gets as far as that step.

\* the value returned by a call in which step f failed; raised: an
\* exception left the service instead of a value
Faulted(call, f, raised) == call @@ [fault |-> f, raised |-> raised]

AcquireFaults ==
  {"open_check", "check_read", "open_acquire", "lock_select", "session_select",
   "session_commit", "lock_commit", "lock_reload", "open_event", "event_append"}

\* the steps of acquire_widget_lock up to the commit of the lock
AcquireStoreSteps ==
  {"open_check", "check_read", "open_acquire", "lock_select", "session_select",
   "session_commit", "lock_commit"}

AuditSteps == {"open_event", "event_append", "event_commit"}

\* the call gets as far as step f
AcquireReaches(f, u, d, w, dur) ==
  LET r == CoreAcquireWidgetLock(locks, sessions, u, d, w, dur, now) IN
  CASE f \in {"open_check", "check_read"} -> ~CacheDenies(lockCache, w, now)
    [] f \in {"open_acquire", "lock_select"} ->
         ~AcquireDenied(lockCache, locks, w, now)
    [] f = "session_select" ->
         ~AcquireDenied(lockCache, locks, w, now)
         /\ ~AcquireBlocked(locks, w, u, now)
    [] f = "session_commit" ->
         ~AcquireDenied(lockCache, locks, w, now)
         /\ ~AcquireBlocked(locks, w, u, now)
         /\ ActiveSessionsOf(sessions, d, u) = {}
    [] OTHER -> ~AcquireDenied(lockCache, locks, w, now) /\ ~r.raised

\* acquire_widget_lock with a store failure at step f.  The handler of the
\* service rolls back the variable session, which is bound only once the
\* first store session has been opened.
AcquireLockFailing(u, d, w, dur, f) ==
  LET r == CoreAcquireWidgetLock(locks, sessions, u, d, w, dur, now)
      g == GetOrCreateUserSession(sessions, d, u, now)
      committed == f \in {"lock_reload", "open_event", "event_append"}
  IN /\ Idle
     /\ AcquireReaches(f, u, d, w, dur)
     /\ (f \in {"lock_commit", "lock_reload", "open_event", "event_append"}
          /\ ActiveSessionsOf(sessions, d, u) = {})
          => Cardinality(DOMAIN sessions) < MaxSessions
     /\ locks' = IF committed THEN r.locks ELSE locks
     /\ sessions' = IF committed THEN r.sessions
                    ELSE IF f = "lock_commit"
                    THEN SessionClose(sessions, g.sessions, g.committed)
                    ELSE sessions
     /\ lockCache' = IF f \in {"open_event", "event_append"}
                     THEN CacheSet(lockCache, w,
                            LockCacheEntry(r.locks[w], now,
                                           Min(dur, LockCacheTtlCap)))
                     ELSE lockCache
     /\ last' = Faulted(Call("acquire", u, d, w, FALSE), f, f = "open_check")
     /\ UNCHANGED <<now, events, pc, tx>>

RefreshFaults == {"open", "select", "update", "session_select", "commit"}

\* refresh_widget_lock with a store failure at step f: nothing is committed
RefreshLockFailing(u, d, w, f) ==
  /\ Idle
  /\ f \in {"update", "session_select", "commit"}
       => RefreshAllowed(locks, w, u, now)
  /\ last' = Faulted(Call("refresh", u, d, w, FALSE), f, FALSE)
  /\ UNCHANGED <<now, locks, sessions, events, lockCache, pc, tx>>

ReleaseFaults ==
  {"open", "select", "commit", "open_event", "event_append", "event_commit"}

\* release_widget_lock with a store failure at step f; the audit steps come
\* after the commit of the release and the cache deletes
ReleaseLockFailing(u, d, w, f) ==
  LET r == CoreReleaseWidgetLock(locks, sessions, u, d, w) IN
  /\ Idle
  /\ f = "commit" => r.outcome = "released"
  /\ f \in AuditSteps => r.outcome # "denied"
  /\ IF f \in AuditSteps
     THEN /\ locks' = r.locks
          /\ sessions' = r.sessions
          /\ lockCache' = CacheDelete(CacheDelete(lockCache, w), StatusKey(w))
     ELSE UNCHANGED <<locks, sessions, lockCache>>
  /\ last' = Faulted(Call("release", u, d, w, FALSE), f, FALSE)
  /\ UNCHANGED <<now, events, pc, tx>>

FaultNext ==
  \/ \E u \in Users, w \in Widgets :
       Counted(AcquireLock(u, "d1", w, DefaultLockDuration))
  \/ \E u \in Users, w \in Widgets, f \in AcquireFaults :
       Counted(AcquireLockFailing(u, "d1", w, DefaultLockDuration, f))
  \/ \E u \in Users, w \in Widgets, f \in RefreshFaults :
       Counted(RefreshLockFailing(u, "d1", w, f))
  \/ \E u \in Users, w \in Widgets, f \in ReleaseFaults :
       Counted(ReleaseLockFailing(u, "d1", w, f))
  \/ Tick

FaultSpec == Init /\ [][FaultNext]_vars

\* ------------------------------------- acquire_widget_lock, interleaved
\* Two callers run acquire_widget_lock at once.  Each step below is one
\* cache or store round trip of the call; the store is PostgreSQL at READ
\* COMMITTED, so a read sees what is committed at that moment, and the
\* flush and commit that end the transaction are one step.

\* what the ORM flushes for a loaded row: the columns whose value differs
\* from the value loaded (base), written over the row as it is now (cur)
FlushChanged(cur, base, mine) ==
  [f \in DOMAIN mine |-> IF mine[f] # base[f] THEN mine[f] ELSE cur[f]]

Finish(u, result) ==
  /\ pc' = [pc EXCEPT ![u] = "done"]
  /\ tx' = [tx EXCEPT ![u] = [@ EXCEPT !.result = result]]

\* lines 79-91 of the service: the cache read
CAcquireBegin(u, d, w, dur) ==
  /\ pc[u] = "idle"
  /\ LET t == [dashboard |-> d, widget |-> w, dur |-> dur,
               free |-> DeadLease(locks, w, now), snap |-> {}, sid |-> 0,
               base |-> {}, row |-> {}, result |-> "none"]
     IN IF CacheDenies(lockCache, w, now)
        THEN /\ pc' = [pc EXCEPT ![u] = "done"]
             /\ tx' = [tx EXCEPT ![u] = [t EXCEPT !.result = "fail"]]
        ELSE /\ pc' = [pc EXCEPT ![u] = "service_check"]
             /\ tx' = [tx EXCEPT ![u] = t]
  /\ UNCHANGED <<now, locks, sessions, events, lockCache, last, calls>>

\* lines 94-103 of the service: its own read of the active row
CServiceCheck(u) ==
  /\ pc[u] = "service_check"
  /\ IF ServiceDenies(locks, tx[u].widget, now)
     THEN Finish(u, "fail")
     ELSE /\ pc' = [pc EXCEPT ![u] = "core_select"]
          /\ UNCHANGED tx
  /\ UNCHANGED <<now, locks, sessions, events, lockCache, last, calls>>

\* steps 1-2 of acquire_widget_lock: load the row, refuse a live foreign lock
CCoreSelect(u) ==
  /\ pc[u] = "core_select"
  /\ IF AcquireBlocked(locks, tx[u].widget, u, now)
     THEN Finish(u, "fail")
     ELSE /\ pc' = [pc EXCEPT ![u] = "get_session"]
          /\ tx' = [tx EXCEPT ![u] =
                      [@ EXCEPT !.snap = IF tx[u].widget \in DOMAIN locks
                                         THEN {locks[tx[u].widget]} ELSE {}]]
  /\ UNCHANGED <<now, locks, sessions, events, lockCache, last, calls>>

\* get_or_create_user_session: the select, and the touch of the row found
CGetSession(u) ==
  LET act == ActiveSessionsOf(sessions, tx[u].dashboard, u) IN
  /\ pc[u] = "get_session"
  /\ IF Cardinality(act) > 1
     THEN Finish(u, "fail")
     ELSE IF act # {}
     THEN LET s == CHOOSE x \in act : TRUE IN
          /\ pc' = [pc EXCEPT ![u] = "commit"]
          /\ tx' = [tx EXCEPT ![u] =
                      [@ EXCEPT !.sid = s, !.base = {sessions[s]},
                                !.row = {[sessions[s] EXCEPT !.last_activity = now]}]]
     ELSE /\ pc' = [pc EXCEPT ![u] = "make_session"]
          /\ UNCHANGED tx
  /\ UNCHANGED <<now, locks, sessions, events, lockCache, last, calls>>

\* get_or_create_user_session: no row found, add one and commit
CMakeSession(u) ==
  LET s == FreshSessionId(sessions)
      r == NewSessionRow(tx[u].dashboard, u, now)
  IN /\ pc[u] = "make_session"
     /\ Cardinality(DOMAIN sessions) < MaxSessions
     /\ sessions' = Put(sessions, s, r)
     /\ pc' = [pc EXCEPT ![u] = "commit"]
     /\ tx' = [tx EXCEPT ![u] = [@ EXCEPT !.sid = s, !.base = {r}, !.row = {r}]]
     /\ UNCHANGED <<now, locks, events, lockCache, last, calls>>

\* steps 4-5 of acquire_widget_lock and its commit.  A row loaded in step 1
\* is updated by primary key; with none loaded the row is inserted, which
\* the primary key refuses when the widget has a row by now.
CCommit(u) ==
  LET w == tx[u].widget
      mine == NewLockRow(tx[u].dashboard, tx[u].sid, u, now, tx[u].dur)
      sbase == CHOOSE r \in tx[u].base : TRUE
      smine == TrackWidget(CHOOSE r \in tx[u].row : TRUE, w, now)
      conflict == IF tx[u].snap = {} THEN w \in DOMAIN locks
                  ELSE w \notin DOMAIN locks
  IN /\ pc[u] = "commit"
     /\ IF conflict
        THEN /\ Finish(u, "fail")
             /\ UNCHANGED <<locks, sessions>>
        ELSE /\ locks' = IF tx[u].snap = {} THEN Put(locks, w, mine)
                         ELSE [locks EXCEPT ![w] =
                                 FlushChanged(@, CHOOSE r \in tx[u].snap : TRUE, mine)]
             /\ sessions' = [sessions EXCEPT ![tx[u].sid] =
                               FlushChanged(@, sbase, smine)]
             /\ pc' = [pc EXCEPT ![u] = "cache"]
             /\ UNCHANGED tx
     /\ UNCHANGED <<now, events, lockCache, last, calls>>

\* lines 114-158 of the service: the cache write and the answer.  The row
\* cached is the one session.refresh read back after the commit.
CCacheWrite(u) ==
  /\ pc[u] = "cache"
  /\ lockCache' = CacheSet(lockCache, tx[u].widget,
                     LockCacheEntry(locks[tx[u].widget], now,
                                    Min(tx[u].dur, LockCacheTtlCap)))
  /\ Finish(u, "ok")
  /\ UNCHANGED <<now, locks, sessions, events, last, calls>>

ConcNext ==
  \/ \E u \in Users, w \in Widgets, dur \in Leases :
       Counted(AcquireLock(u, "d1", w, dur))
  \/ \E u \in Users, w \in Widgets : Counted(ReleaseLock(u, "d1", w))
  \/ Tick
  \/ \E u \in Users, w \in Widgets :
       CAcquireBegin(u, "d1", w, DefaultLockDuration)
  \/ \E u \in Users : CServiceCheck(u)
  \/ \E u \in Users : CCoreSelect(u)
  \/ \E u \in Users : CGetSession(u)
  \/ \E u \in Users : CMakeSession(u)
  \/ \E u \in Users : CCommit(u)
  \/ \E u \in Users : CCacheWrite(u)

ConcSpec == Init /\ [][ConcNext]_vars

\* --------------------------------------- session calls, interleaved
\* Two calls at once, each in a slot of pc and tx; the calling user is kept
\* in tx, so both slots may serve one user.  A step is one store round trip.

Answer(c, call) ==
  /\ last' = call
  /\ pc' = [pc EXCEPT ![c] = "idle"]
  /\ tx' = [tx EXCEPT ![c] = EmptyMap]

\* start_dashboard_editing: the select of get_or_create_user_session; a row
\* found is touched and flushed in a session that is closed without commit
SStartSelect(c, u, d) ==
  LET act == ActiveSessionsOf(sessions, d, u) IN
  /\ pc[c] = "idle"
  /\ calls < MaxCalls
  /\ calls' = calls + 1
  /\ IF Cardinality(act) > 1
     THEN Answer(c, Call("start", u, d, "w1", FALSE))
     ELSE IF act # {}
     THEN Answer(c, Call("start", u, d, "w1", TRUE))
     ELSE /\ pc' = [pc EXCEPT ![c] = "s_create"]
          /\ tx' = [tx EXCEPT ![c] = [user |-> u, dashboard |-> d, sid |-> 0,
                                      base |-> {}]]
          /\ UNCHANGED last
  /\ UNCHANGED <<now, locks, sessions, events, lockCache>>

\* start_dashboard_editing: no row was found, one is added and committed
SStartCreate(c) ==
  /\ pc[c] = "s_create"
  /\ Cardinality(DOMAIN sessions) < MaxSessions
  /\ sessions' = Put(sessions, FreshSessionId(sessions),
                     NewSessionRow(tx[c].dashboard, tx[c].user, now))
  /\ Answer(c, Call("start", tx[c].user, tx[c].dashboard, "w1", TRUE))
  /\ UNCHANGED <<now, locks, events, lockCache, calls>>

\* refresh_dashboard_editing: the select of the active session
SRefreshSelect(c, u, d) ==
  LET act == ActiveSessionsOf(sessions, d, u) IN
  /\ pc[c] = "idle"
  /\ calls < MaxCalls
  /\ calls' = calls + 1
  /\ IF Cardinality(act) > 1
     THEN Answer(c, Call("refresh_editing", u, d, "w1", FALSE))
     ELSE /\ pc' = [pc EXCEPT ![c] = IF act = {} THEN "r_any" ELSE "r_commit"]
          /\ tx' = [tx EXCEPT ![c] =
                      [user |-> u, dashboard |-> d,
                       sid |-> IF act = {} THEN 0 ELSE CHOOSE x \in act : TRUE,
                       base |-> {sessions[x] : x \in act}]]
          /\ UNCHANGED last
  /\ UNCHANGED <<now, locks, sessions, events, lockCache>>

\* refresh_dashboard_editing: no active session, the select of any session
SRefreshAny(c) ==
  LET any == AnySessionsOf(sessions, tx[c].dashboard, tx[c].user) IN
  /\ pc[c] = "r_any"
  /\ IF Cardinality(any) # 1
     THEN Answer(c, Call("refresh_editing", tx[c].user, tx[c].dashboard, "w1",
                         FALSE))
     ELSE /\ pc' = [pc EXCEPT ![c] = "r_commit"]
          /\ tx' = [tx EXCEPT ![c] =
                      [@ EXCEPT !.sid = CHOOSE x \in any : TRUE,
                                !.base = {sessions[x] : x \in any}]]
          /\ UNCHANGED last
  /\ UNCHANGED <<now, locks, sessions, events, lockCache, calls>>

\* refresh_dashboard_editing: the row loaded is made active, touched and
\* committed
SRefreshCommit(c) ==
  LET base == CHOOSE r \in tx[c].base : TRUE
      mine == [base EXCEPT !.is_active = TRUE, !.last_activity = now]
  IN /\ pc[c] = "r_commit"
     /\ sessions' = [sessions EXCEPT ![tx[c].sid] = FlushChanged(@, base, mine)]
     /\ Answer(c, Call("refresh_editing", tx[c].user, tx[c].dashboard, "w1",
                        TRUE))
     /\ UNCHANGED <<now, locks, events, lockCache, calls>>

SessNext ==
  \/ \E u \in Users, d \in Dashboards : Counted(StopEditing(u, d))
  \/ Tick
  \/ \E c \in Users, u \in Users, d \in Dashboards : SStartSelect(c, u, d)
  \/ \E c \in Users : SStartCreate(c)
  \/ \E c \in Users, u \in Users, d \in Dashboards : SRefreshSelect(c, u, d)
  \/ \E c \in Users : SRefreshAny(c)
  \/ \E c \in Users : SRefreshCommit(c)

SessSpec == Init /\ [][SessNext]_vars

\* ------------------------------------------- edit-mode cycles
\* A user enters and leaves edit mode again and again; the reaper runs and
\* time passes in whole session timeouts.
EditCounted(call) ==
  /\ calls < MaxEditCalls
  /\ call
  /\ calls' = calls + 1

EditNext ==
  \/ \E u \in Users, d \in Dashboards : EditCounted(StartEditing(u, d))
  \/ \E u \in Users, d \in Dashboards : EditCounted(StopEditing(u, d))
  \/ EditCounted(RunCleanup)
  \/ ReaperTick

EditSpec == Init /\ [][EditNext]_vars

\* ------------------------------------------- the scheduled cleanup job
\* SessionCleanupService: once started, the scheduler runs _cleanup_task
\* every cleanup interval.  The job is one more caller, pc["job"]: "stopped"
\* before start_cleanup_service, "scheduled" while is_running.  A cycle runs
\* whole; in a failing cycle the store operation named raises.  The service
\* is not stopped by its operator in these runs.

CleanupFaults ==
  {"open", "count_select", "delete_expired", "stale_select",
   "delete_session_locks", "flush"}

\* cleanup_stale_sessions_and_locks of the service with step f failing: does
\* it raise to the job?  Its handler rolls back the variable session, which
\* is unbound when the store session could not be opened; for a later step
\* the handler returns (0, 0).
ServiceCleanupRaises(f) == f = "open"

\* a job body without a handler
TaskLetsThrough(f) == FALSE

\* _cleanup_task: except Exception around the whole body
TaskCatches(f) == TRUE

JobInit ==
  /\ now = 0
  /\ locks = EmptyMap
  /\ sessions = EmptyMap
  /\ events = {}
  /\ lockCache = EmptyMap
  /\ last = [op |-> "none", user |-> "A", dashboard |-> "d1", widget |-> "w1",
             ok |-> FALSE, again |-> FALSE]
  /\ calls = 0
  /\ pc = [c \in Users \cup {"job"} |-> IF c = "job" THEN "stopped" ELSE "idle"]
  /\ tx = [u \in Users |-> EmptyMap]

StartCleanupService ==
  /\ pc["job"] = "stopped"
  /\ pc' = [pc EXCEPT !["job"] = "scheduled"]
  /\ UNCHANGED <<now, locks, sessions, events, lockCache, last, calls, tx>>

\* one run of _cleanup_task; f = "none": no store operation fails.  What the
\* reaper flushed is never committed, so the store is as before either way.
CleanupTask(f) ==
  LET r == CoreCleanup(locks, sessions, now)
      raised == f # "none" /\ ServiceCleanupRaises(f)
  IN /\ Idle
     /\ pc["job"] = "scheduled"
     /\ locks' = SessionClose(locks, r.locks, FALSE)
     /\ sessions' = SessionClose(sessions, r.sessions, FALSE)
     /\ last' = [op |-> "cleanup_task", user |-> "A", dashboard |-> "d1",
                 widget |-> "w1", ok |-> (f = "none"), again |-> FALSE,
                 fault |-> f, raised |-> raised,
                 escaped |-> (raised /\ ~TaskCatches(f)),
                 prev |-> IF last.op = "cleanup_task" THEN last.fault
                          ELSE "none"]
     \* nothing in the job touches is_running or the scheduler
     /\ pc' = pc
     /\ UNCHANGED <<now, events, lockCache, tx>>

FailingCycle(f) == Counted(CleanupTask(f))

GoodCycle == CleanupTask("none") /\ UNCHANGED calls

JobNext ==
  \/ StartCleanupService
  \/ \E f \in CleanupFaults : FailingCycle(f)
  \/ GoodCycle
  \/ \E u \in Users, w \in Widgets :
       Counted(AcquireLock(u, "d1", w, DefaultLockDuration))
  \/ \E u \in Users : Counted(StartEditing(u, "d1"))
  \/ ReaperTick

\* the interval trigger fires the job again and again
JobSpec == JobInit /\ [][JobNext]_vars /\ WF_vars(GoodCycle)

\* ------------------------------------------------- requested leases
\* Leases are requested at, just below and just above the two ends of the
\* range of WidgetLockAcquireSchema.lock_duration.
RequestedLeases ==
  {MinLockDuration - 1, MinLockDuration, MaxLockDuration, MaxLockDuration + 1}

\* a request moved to the nearest end of [30, 300]
Clamp(dur) ==
  IF dur < MinLockDuration THEN MinLockDuration
  ELSE IF dur > MaxLockDuration THEN MaxLockDuration
  ELSE dur

\* WidgetLockAcquireSchema: lock_duration: int, ge=30, le=300
SchemaAccepts(dur) == dur >= MinLockDuration /\ dur <= MaxLockDuration

\* POST /dashboards/{dashboard_id}/widgets/lock: a body the schema refuses
\* is answered 422 before the handler runs; otherwise lock_duration goes to
\* the service as it is
ApiAcquireLock(u, d, w, dur) ==
  IF SchemaAccepts(dur)
  THEN AcquireLock(u, d, w, dur)
  ELSE /\ Idle
       /\ last' = Call("acquire", u, d, w, FALSE) @@ [rejected |-> TRUE]
       /\ UNCHANGED <<now, locks, sessions, events, lockCache, pc, tx>>

BoundsNext ==
  \/ \E u \in Users, w \in Widgets, dur \in RequestedLeases :
       Counted(AcquireLock(u, "d1", w, dur))
  \/ \E u \in Users, w \in Widgets, dur \in RequestedLeases :
       Counted(ApiAcquireLock(u, "d1", w, dur))
  \/ \E u \in Users, w \in Widgets : Counted(ReleaseLock(u, "d1", w))
  \/ Tick

BoundsSpec == Init /\ [][BoundsNext]_vars

\* ------------------------------------------------------ readers
\* get_active_sessions of CoreWidgetLocking, the locks: select(WidgetLock)
\* .where(dashboard_id == d, is_active); the widget ids of the rows found
ActiveLocksOfDashboard(lk, d) ==
  {w \in DOMAIN lk : lk[w].dashboard_id = d /\ lk[w].is_active}

\* get_active_sessions of the service: a cached listing is rebuilt from the
\* cached dicts, and when that raises the handler answers with empty lists;
\* on a miss the store is read and the listing cached for 3 seconds
ListActiveSessions(u, d) ==
  LET hit == CacheGet(lockCache, SessionsKey(d), now)
      found == ActiveLocksOfDashboard(locks, d)
  IN /\ Idle
     /\ \E listed \in IF hit # {} THEN {(CHOOSE e \in hit : TRUE).listed, {}}
                       ELSE {found} :
          last' = [op |-> "list", user |-> u, dashboard |-> d, widget |-> "w1",
                   ok |-> TRUE, again |-> FALSE, listed |-> listed, at |-> now]
     /\ lockCache' = IF hit # {} THEN lockCache
                     ELSE CacheSet(lockCache, SessionsKey(d),
                                   [listed |-> found,
                                    expire_at |-> now + SessionsCacheTtl])
     /\ UNCHANGED <<now, locks, sessions, events, pc, tx>>

ReadNext ==
  \/ \E u \in Users, w \in Widgets :
       Counted(AcquireLock(u, "d1", w, MinLockDuration))
  \/ \E u \in Users, w \in Widgets : Counted(ReleaseLock(u, "d1", w))
  \/ \E u \in Users, w \in Widgets : Counted(GetLockStatus(u, w))
  \/ \E u \in Users : Counted(ListActiveSessions(u, "d1"))
  \/ StatusTick

ReadSpec == Init /\ [][ReadNext]_vars

\* ------------------------------------------- locks taken and released
\* AcquireLock, ReleaseLock and RefreshLock by every user on every dashboard
\* and widget.
LockNext ==
  \/ \E u \in Users, d \in Dashboards, w \in Widgets, dur \in Leases :
       Counted(AcquireLock(u, d, w, dur))
  \/ \E u \in Users, d \in Dashboards, w \in Widgets :
       Counted(ReleaseLock(u, d, w))
  \/ \E u \in Users, d \in Dashboards, w \in Widgets :
       Counted(RefreshLock(u, d, w))
  \/ Tick

LockSpec == Init /\ [][LockNext]_vars

\* ------------------------------------------- locks released and polled
\* Locks are taken and released on every dashboard while clients poll the
\* status of the widgets.
ReleaseNext ==
  \/ \E u \in Users, d \in Dashboards, w \in Widgets :
       Counted(AcquireLock(u, d, w, DefaultLockDuration))
  \/ \E u \in Users, d \in Dashboards, w \in Widgets :
       Counted(ReleaseLock(u, d, w))
  \/ \E u \in Users, w \in Widgets : Counted(GetLockStatus(u, w))
  \/ Tick

ReleaseSpec == Init /\ [][ReleaseNext]_vars

\* ------------------------------------------- heartbeats on any lease
\* Locks are taken with the shortest, the default and the longest lease the
\* request schema admits, and their holders send heartbeats.
HeartbeatLeases == {MinLockDuration, DefaultLockDuration, MaxLockDuration}

HeartbeatNext ==
  \/ \E u \in Users, w \in Widgets, dur \in HeartbeatLeases :
       Counted(AcquireLock(u, "d1", w, dur))
  \/ \E u \in Users, w \in Widgets : Counted(RefreshLock(u, "d1", w))
  \/ Tick

HeartbeatSpec == Init /\ [][HeartbeatNext]_vars

\* ------------------------------------------- a heartbeat, interleaved
\* refresh_widget_lock runs while other users' calls run: acquire_widget_lock
\* in the steps above, release_widget_lock as one step (one transaction).
\* The clock moves on by seconds while calls are in flight.

\* lines 185-219 of the service: the read of the active row and the checks
\* of owner and expiry
HRefreshSelect(u, w) ==
  /\ pc[u] = "idle"
  /\ LET t == [dashboard |-> "d1", widget |-> w, result |-> "none"]
     IN IF RefreshAllowed(locks, w, u, now)
        THEN /\ pc' = [pc EXCEPT ![u] = "r_write"]
             /\ tx' = [tx EXCEPT ![u] = t]
        ELSE /\ pc' = [pc EXCEPT ![u] = "done"]
             /\ tx' = [tx EXCEPT ![u] = [t EXCEPT !.result = "fail"]]
  /\ UNCHANGED <<now, locks, sessions, events, lockCache, last, calls>>

\* lines 222-253 of the service: update(WidgetLock).where(widget_id == w),
\* the reload of the row, the touch of the row's session, the commit, the
\* cache write and the answer success=true
HRefreshWrite(u) ==
  LET w == tx[u].widget
      r == CoreRefreshWidgetLock(locks, sessions, w, LockExpirationThreshold, now)
  IN /\ pc[u] = "r_write"
     /\ locks' = r.locks
     /\ sessions' = r.sessions
     /\ lockCache' = CacheSet(lockCache, w,
                        LockCacheEntry(r.locks[w], now, LockCacheTtlCap))
     /\ Finish(u, "ok")
     /\ UNCHANGED <<now, events, last, calls>>

\* release_widget_lock while other calls are in flight
HReleaseLock(u, d, w) ==
  LET r == CoreReleaseWidgetLock(locks, sessions, u, d, w) IN
  /\ pc[u] = "idle"
  /\ IF r.outcome = "denied"
     THEN /\ last' = Call("release", u, d, w, FALSE)
          /\ UNCHANGED <<locks, sessions, lockCache, events>>
     ELSE /\ locks' = r.locks
          /\ sessions' = r.sessions
          /\ lockCache' = CacheDelete(CacheDelete(lockCache, w), StatusKey(w))
          /\ events' = events \cup {LockReleased(d, w, u)}
          /\ last' = Call("release", u, d, w, TRUE)
  /\ UNCHANGED <<now, pc, tx>>

\* the first lease has run out, and the calls in flight then have returned
RaceHorizon == TickStep + MaxLatency

RaceTick == Advance(TickStep, RaceHorizon)

\* a second passes while a call is in flight; calls are in flight for up to
\* MaxLatency seconds after the moments at which leases run out
MidCallTick ==
  /\ ~Idle
  /\ now % TickStep < MaxLatency
  /\ now + 1 <= RaceHorizon
  /\ now' = now + 1
  /\ lockCache' = Restrict(lockCache,
                    {k \in DOMAIN lockCache : now + 1 < lockCache[k].expire_at})
  /\ UNCHANGED <<locks, sessions, events, last, calls, pc, tx>>

RaceNext ==
  \/ \E u \in Users, w \in Widgets :
       Counted(AcquireLock(u, "d1", w, MinLockDuration))
  \/ \E u \in Users, w \in Widgets : HRefreshSelect(u, w)
  \/ \E u \in Users : HRefreshWrite(u)
  \/ \E u \in Users, w \in Widgets : Counted(HReleaseLock(u, "d1", w))
  \/ \E u \in Users, w \in Widgets :
       CAcquireBegin(u, "d1", w, MinLockDuration)
  \/ \E u \in Users : CServiceCheck(u)
  \/ \E u \in Users : CCoreSelect(u)
  \/ \E u \in Users : CGetSession(u)
  \/ \E u \in Users : CMakeSession(u)
  \/ \E u \in Users : CCommit(u)
  \/ \E u \in Users : CCacheWrite(u)
  \/ RaceTick
  \/ MidCallTick

RaceSpec == Init /\ [][RaceNext]_vars

\* -------------------------------------------- the reaper and the cache
\* Locks are taken and renewed, statuses and listings are read and cached,
\* and the reaper runs in between.
SweepNext ==
  \/ \E u \in Users, w \in Widgets :
       Counted(AcquireLock(u, "d1", w, MinLockDuration))
  \/ \E u \in Users, w \in Widgets : Counted(RefreshLock(u, "d1", w))
  \/ \E u \in Users, w \in Widgets : Counted(GetLockStatus(u, w))
  \/ \E u \in Users : Counted(ListActiveSessions(u, "d1"))
  \/ Counted(RunCleanup)
  \/ StatusTick

SweepSpec == Init /\ [][SweepNext]_vars

\* ------------------------------------------- edit mode, with heartbeats
\* Users enter and leave edit mode and send session heartbeats while the
\* reaper runs.
RecoverNext ==
  \/ \E u \in Users, d \in Dashboards : EditCounted(StartEditing(u, d))
  \/ \E u \in Users, d \in Dashboards : EditCounted(StopEditing(u, d))
  \/ \E u \in Users, d \in Dashboards : EditCounted(RefreshEditing(u, d))
  \/ EditCounted(RunCleanup)
  \/ ReaperTick

RecoverSpec == Init /\ [][RecoverNext]_vars

\* ------------------------------------------- leaving with locks held
\* Users take locks, enter and leave edit mode.
LeaveNext ==
  \/ \E u \in Users, d \in Dashboards, w \in Widgets :
       Counted(AcquireLock(u, d, w, DefaultLockDuration))
  \/ \E u \in Users, d \in Dashboards : Counted(StartEditing(u, d))
  \/ \E u \in Users, d \in Dashboards : Counted(StopEditing(u, d))
  \/ Counted(RunCleanup)
  \/ Tick

LeaveSpec == Init /\ [][LeaveNext]_vars

\* --------------------------------------- the reaper, reconfigured
\* SessionCleanupService as its operator drives it: started, stopped and
\* given a new interval.  tx["svc"] holds the fields of the service:
\* is_running, cleanup_interval, and trigger, the seconds of the interval
\* trigger of the scheduled job (0: no job is scheduled).

\* the intervals an operator asks for, on both sides of the minimum
RequestedIntervals ==
  {0, MinCleanupInterval - 1, MinCleanupInterval, MinCleanupInterval + 1,
   2 * DefaultCleanupInterval}

\* SessionCleanupService.__init__
NewCleanupService ==
  [is_running |-> FALSE, cleanup_interval |-> DefaultCleanupInterval,
   trigger |-> 0]

\* start_cleanup_service: nothing when already running; otherwise the job is
\* added with IntervalTrigger(seconds=cleanup_interval)
StartedService(svc) ==
  IF svc.is_running THEN svc
  ELSE [svc EXCEPT !.is_running = TRUE, !.trigger = svc.cleanup_interval]

\* stop_cleanup_service: nothing when not running; otherwise the scheduler
\* is shut down, and its job with it
StoppedService(svc) ==
  IF ~svc.is_running THEN svc
  ELSE [svc EXCEPT !.is_running = FALSE, !.trigger = 0]

\* an interval check that lets every interval through
IntervalNeverRejected(n) == FALSE

\* update_cleanup_interval, its first statement: raise ValueError
IntervalRejected(n) == n < MinCleanupInterval

\* update_cleanup_interval after the check: stop if running, assign, start
\* if (still) running
UpdatedService(svc, n) ==
  LET stopped == IF svc.is_running THEN StoppedService(svc) ELSE svc
      assigned == [stopped EXCEPT !.cleanup_interval = n]
  IN IF assigned.is_running THEN StartedService(assigned) ELSE assigned

IntervalInit ==
  /\ now = 0
  /\ locks = EmptyMap
  /\ sessions = EmptyMap
  /\ events = {}
  /\ lockCache = EmptyMap
  /\ last = [op |-> "none", user |-> "A", dashboard |-> "d1", widget |-> "w1",
             ok |-> FALSE, again |-> FALSE]
  /\ calls = 0
  /\ pc = [u \in Users |-> "idle"]
  /\ tx = [c \in Users \cup {"svc"} |->
             IF c = "svc" THEN NewCleanupService ELSE EmptyMap]

\* a call of the operator: the fields of the service before the call are
\* kept in the record of the call
ServiceCall(op, n, raised) ==
  Call(op, "A", "d1", "w1", ~raised)
    @@ [n |-> n, raised |-> raised, was |-> tx["svc"]]

StartService ==
  /\ tx' = [tx EXCEPT !["svc"] = StartedService(@)]
  /\ last' = ServiceCall("start_service", 0, FALSE)
  /\ UNCHANGED <<now, locks, sessions, events, lockCache, pc>>

StopCleanupService ==
  /\ tx' = [tx EXCEPT !["svc"] = StoppedService(@)]
  /\ last' = ServiceCall("stop_service", 0, FALSE)
  /\ UNCHANGED <<now, locks, sessions, events, lockCache, pc>>

UpdateCleanupInterval(n) ==
  /\ IF IntervalRejected(n)
     THEN /\ last' = ServiceCall("update_interval", n, TRUE)
          /\ UNCHANGED tx
     ELSE /\ tx' = [tx EXCEPT !["svc"] = UpdatedService(@, n)]
          /\ last' = ServiceCall("update_interval", n, FALSE)
  /\ UNCHANGED <<now, locks, sessions, events, lockCache, pc>>

\* the scheduled job runs the reaper while a job is scheduled
ScheduledCleanup ==
  /\ tx["svc"].trigger > 0
  /\ RunCleanup

IntervalNext ==
  \/ EditCounted(StartService)
  \/ EditCounted(StopCleanupService)
  \/ \E n \in RequestedIntervals : EditCounted(UpdateCleanupInterval(n))
  \/ EditCounted(ScheduledCleanup)

IntervalSpec == IntervalInit /\ [][IntervalNext]_vars

\* ------------------------------- acquires at once, sessions stopped
\* Locks are taken and released and edit mode is left, one call at a time,
\* and two callers run acquire_widget_lock at once.
OwnerNext ==
  \/ \E u \in Users, w \in Widgets :
       Counted(AcquireLock(u, "d1", w, DefaultLockDuration))
  \/ \E u \in Users, w \in Widgets : Counted(ReleaseLock(u, "d1", w))
  \/ \E u \in Users : Counted(StopEditing(u, "d1"))
  \/ Tick
  \/ \E u \in Users, w \in Widgets :
       CAcquireBegin(u, "d1", w, DefaultLockDuration)
  \/ \E u \in Users : CServiceCheck(u)
  \/ \E u \in Users : CCoreSelect(u)
  \/ \E u \in Users : CGetSession(u)
  \/ \E u \in Users : CMakeSession(u)
  \/ \E u \in Users : CCommit(u)
  \/ \E u \in Users : CCacheWrite(u)

OwnerSpec == Init /\ [][OwnerNext]_vars

\* ------------------------------------------------ rows of widgets, reused
\* Locks are taken and released one call at a time, leases run out, and the
\* reaper runs in between.
ReuseNext ==
  \/ \E u \in Users, d \in Dashboards, w \in Widgets :
       Counted(AcquireLock(u, d, w, MinLockDuration))
  \/ \E u \in Users, d \in Dashboards, w \in Widgets :
       Counted(ReleaseLock(u, d, w))
  \/ Counted(RunCleanup)
  \/ Tick

ReuseSpec == Init /\ [][ReuseNext]_vars

TypeOK ==
  /\ now >= 0
  /\ DOMAIN locks \subseteq Widgets
  /\ DOMAIN sessions \subseteq 1..MaxSessions

\* ------------------------------------------------------------ properties

\* the row of widget w is a held lock: active and not yet at its expires_at
HeldLock(lk, w, t) ==
  w \in DOMAIN lk /\ lk[w].is_active /\ t < lk[w].expires_at

\* the step is a completed service call of kind op
CallStep(op) == calls' = calls + 1 /\ last'.op = op

\* the widget ids whose row is active and belongs to session s
ActiveLocksOfSession(lk, s) ==
  {w \in DOMAIN lk : lk[w].is_active /\ lk[w].session_id = s}

\* C2: after every completed call, every session's locked_widgets is exactly
\* the set of widgets whose lock row is active and carries that session's id.
SessionConsistency ==
  \A s \in DOMAIN sessions :
    Range(sessions[s].locked_widgets) = ActiveLocksOfSession(locks, s)

\* C3: an AcquireLock by the user who holds the active, unexpired lock
\* succeeds, leaves that user the owner, extends expires_at to the call time
\* plus the requested lease, and keeps the widget exactly once in the
\* session's locked_widgets.
OwnerReacquireRenews ==
  [][\A dur \in Leases :
       (/\ CallStep("acquire")
        /\ last'.widget \in DOMAIN locks
        /\ locks[last'.widget].is_active
        /\ now < locks[last'.widget].expires_at
        /\ locks[last'.widget].user_id = last'.user
        /\ AcquireLock(last'.user, last'.dashboard, last'.widget, dur))
       => (/\ last'.ok
           /\ locks'[last'.widget].user_id = last'.user
           /\ locks'[last'.widget].expires_at = now + dur
           /\ Cardinality({i \in DOMAIN sessions'[locks'[last'.widget].session_id].locked_widgets :
                 sessions'[locks'[last'.widget].session_id].locked_widgets[i]
                   = last'.widget}) = 1)]_vars

\* the lock row a ReleaseLock call addresses: the widget's row on the
\* dashboard named in the call
Addressed(lk, c) ==
  c.widget \in DOMAIN lk /\ lk[c.widget].dashboard_id = c.dashboard

\* C4 as stated: a ReleaseLock by a user other than the owner of the
\* widget's active lock returns false and changes no lock row and no
\* session row, whatever dashboard the call names.
ReleaseByNonOwnerAlwaysFalse ==
  [][(/\ CallStep("release")
      /\ last'.widget \in DOMAIN locks
      /\ locks[last'.widget].is_active
      /\ locks[last'.widget].user_id # last'.user)
     => (~last'.ok /\ locks' = locks /\ sessions' = sessions)]_vars

\* C4: a ReleaseLock that names the dashboard of the widget's active lock,
\* made by a user other than the owner, returns false and changes no lock
\* row and no session row.
ReleaseByNonOwnerDenied ==
  [][(/\ CallStep("release")
      /\ Addressed(locks, last')
      /\ locks[last'.widget].is_active
      /\ locks[last'.widget].user_id # last'.user)
     => (~last'.ok /\ locks' = locks /\ sessions' = sessions)]_vars

\* a non-owner's release of an active lock, on its dashboard, was refused
ReleaseByNonOwnerSeen ==
  /\ last.op = "release" /\ ~last.ok
  /\ Addressed(locks, last)
  /\ locks[last.widget].is_active
  /\ locks[last.widget].user_id # last.user

\* C5: a RefreshLock by a user other than the owner of the widget's active
\* lock returns success=false and changes no lock row (expires_at,
\* last_heartbeat) and no session row (last_activity).
RefreshByNonOwnerDenied ==
  [][(/\ CallStep("refresh")
      /\ last'.widget \in DOMAIN locks
      /\ locks[last'.widget].is_active
      /\ locks[last'.widget].user_id # last'.user)
     => (~last'.ok /\ locks' = locks /\ sessions' = sessions)]_vars

\* a non-owner's heartbeat on an active, unexpired lock was refused
RefreshByNonOwnerSeen ==
  /\ last.op = "refresh" /\ ~last.ok
  /\ last.widget \in DOMAIN locks
  /\ locks[last.widget].is_active
  /\ ~IsExpired(locks[last.widget], now)
  /\ locks[last.widget].user_id # last.user

\* C6: a RefreshLock on a widget with no row, a released row or an expired
\* row returns success=false and changes no lock row.
HeartbeatNeverRevives ==
  [][(CallStep("refresh") /\ DeadLease(locks, last'.widget, now))
     => (~last'.ok /\ locks' = locks)]_vars

\* the owner's heartbeat on its own expired, still active row was refused
HeartbeatOnExpiredSeen ==
  /\ last.op = "refresh" /\ ~last.ok
  /\ last.widget \in DOMAIN locks
  /\ locks[last.widget].is_active
  /\ locks[last.widget].user_id = last.user
  /\ now > locks[last.widget].expires_at

CleanupReapsExpiredLocks ==
  [][CallStep("cleanup")
     => \A w \in DOMAIN locks :
          locks[w].expires_at <= now
            => (w \notin DOMAIN locks' \/ ~locks'[w].is_active)]_vars

\* the sessions the reaper's query selects: active, idle for the timeout
StaleSessions(ss, t) ==
  {s \in DOMAIN ss : ss[s].is_active /\ ss[s].last_activity <= t - SessionTimeout}

\* C9: once a RunCleanup call has completed, every session that was active
\* and idle for the session timeout is inactive in the store, and no active
\* lock row carries its session_id.
CleanupReapsStaleSessions ==
  [][CallStep("cleanup")
     => \A s \in StaleSessions(sessions, now) :
          /\ ~sessions'[s].is_active
          /\ ActiveLocksOfSession(locks', s) = {}]_vars

\* C1: when two users' AcquireLock calls on one widget both start while the
\* widget has no live lease, exactly one of them returns success=true.
ConcurrentAcquireOneWinner ==
  \A u1, u2 \in Users :
    (/\ u1 # u2
     /\ pc[u1] = "done" /\ pc[u2] = "done"
     /\ tx[u1].widget = tx[u2].widget
     /\ tx[u1].free /\ tx[u2].free)
    => ((tx[u1].result = "ok") # (tx[u2].result = "ok"))

\* user u owns the active lock row of widget w
HeldBy(u, w) ==
  w \in DOMAIN locks /\ locks[w].is_active /\ locks[w].user_id = u

\* the last completed call is u's AcquireLock on w, answered success=true
Acquired(u, w) ==
  last.op = "acquire" /\ last.user = u /\ last.widget = w /\ last.ok

\* C10: once A holds widget W and makes no further call, B, retrying
\* AcquireLock on W while time advances, eventually gets success=true.
AbandonedLockRecovered ==
  \A w \in Widgets : HeldBy("A", w) ~> Acquired("B", w)

\* B has taken over a widget that the silent A's session still lists
AbandonedLockTakenOver ==
  \E w \in Widgets :
    /\ Acquired("B", w) /\ HeldBy("B", w)
    /\ \E s \in DOMAIN sessions :
         sessions[s].user_id = "A" /\ w \in Range(sessions[s].locked_widgets)

\* A holds w under a lease taken at t=0 and last refreshed at t=30
RefreshedAtThirty(w) ==
  /\ HeldBy("A", w)
  /\ locks[w].locked_at = 0
  /\ locks[w].last_heartbeat = 30

\* C11: A takes W with a 60-second lease at t=0; A's RefreshLock at t=30
\* succeeds and moves expires_at to 90; B's AcquireLock at t=40 is denied;
\* with no further refresh B's AcquireLock at t=96 succeeds.
LeaseArithmetic ==
  [][\A w \in Widgets :
       /\ (/\ CallStep("refresh") /\ last'.user = "A" /\ last'.widget = w
           /\ now = 30
           /\ HeldBy("A", w) /\ locks[w].locked_at = 0
           /\ locks[w].last_heartbeat = 0)
          => (last'.ok /\ locks'[w].expires_at = 90)
       /\ (/\ CallStep("acquire") /\ last'.user = "B" /\ last'.widget = w
           /\ RefreshedAtThirty(w))
          => /\ (now = 40 => ~last'.ok)
             /\ (now = 96 => last'.ok)]_vars

\* C12: in every reachable state at most one UserSession row of a
\* (dashboard_id, user_id) pair has is_active = TRUE.
OneActiveSessionPerUser ==
  \A u \in Users, d \in Dashboards :
    Cardinality(ActiveSessionsOf(sessions, d, u)) <= 1

\* C13: an AcquireLock returns success=true only if the store, read in
\* that call, holds no active, unexpired lock of the widget owned by another
\* user, whatever the cache holds.
CacheNeverGrants ==
  [][(CallStep("acquire") /\ last'.ok)
     => ~(\E r \in GetActiveWidgetLock(locks, last'.widget) :
            ~IsExpired(r, now) /\ r.user_id # last'.user)]_vars

\* a cache entry turned a grant into a deny: the store holds no live lease of
\* the widget, the cache names a holder, and the acquire was refused
CacheTurnedGrantIntoDeny ==
  /\ last.op = "acquire" /\ ~last.ok
  /\ DeadLease(locks, last.widget, now)
  /\ CacheDenies(lockCache, last.widget, now)

\* acquire_widget_lock with the cache disabled: every read misses, so the
\* store's check and the core decide
StoreOnlyAcquire(lk, ss, u, d, w, dur, t) ==
  LET r == CoreAcquireWidgetLock(lk, ss, u, d, w, dur, t) IN
  IF ServiceDenies(lk, w, t) \/ r.raised
  THEN [ok |-> FALSE, locks |-> lk, sessions |-> ss]
  ELSE [ok |-> TRUE, locks |-> r.locks, sessions |-> r.sessions]

\* C14: every AcquireLock of a sequential run answers, and leaves the
\* WidgetLock and UserSession rows, exactly as the same call does with the
\* cache disabled; RefreshLock, ReleaseLock and RunCleanup never read the
\* cache, so the two runs stay in the same store state.
CacheIndependent ==
  [][\A u \in Users, d \in Dashboards, w \in Widgets, dur \in Leases :
       (CallStep("acquire") /\ AcquireLock(u, d, w, dur))
       => LET r == StoreOnlyAcquire(locks, sessions, u, d, w, dur, now)
          IN last'.ok = r.ok /\ locks' = r.locks /\ sessions' = r.sessions]_vars

\* an acquire refused while the cache holds the lock's entry: the store,
\* asked alone, refuses it as well
CacheAndStoreDeny ==
  /\ last.op = "acquire" /\ ~last.ok
  /\ CacheDenies(lockCache, last.widget, now)
  /\ ServiceDenies(locks, last.widget, now)

\* C15: every GetLockStatus response has can_acquire = TRUE exactly when
\* is_locked = FALSE or the lock's owner is the user who asks.
CanAcquirePerRequester ==
  last.op = "status"
    => (last.status.can_acquire
          <=> (~last.status.is_locked
                 \/ last.status.locked_by_user_id = last.user))

\* C16: the time_remaining of every GetLockStatus response, and the
\* time_remaining of every lock row at any time before, at or after its
\* expires_at, is at least 0.
TimeRemainingNeverNegative ==
  /\ last.op = "status" => last.status.time_remaining >= 0
  /\ \A w \in DOMAIN locks : TimeRemaining(locks[w], now) >= 0

\* a status was polled for a widget whose active row has run out
StatusPolledAfterExpiry ==
  /\ last.op = "status" /\ last.at = now
  /\ last.widget \in DOMAIN locks
  /\ locks[last.widget].is_active
  /\ now > locks[last.widget].expires_at
  /\ last.status.time_remaining = 0

\* C17: of two GetLockStatus polls of a locked widget at times t1 < t2, with
\* no other call between them, the second returns a time_remaining strictly
\* smaller than the first.
TimeRemainingDecreases ==
  [][(/\ CallStep("status")
      /\ last.op = "status" /\ last.widget = last'.widget
      /\ last.status.is_locked
      /\ last.at < last'.at)
     => last'.status.time_remaining < last.status.time_remaining]_vars

\* the last call is one in which a store operation failed
StoreFailed == "fault" \in DOMAIN last

\* C18: an AcquireLock, RefreshLock or ReleaseLock in which a store
\* operation fails, the opening of a store session included, raises nothing
\* to its caller and returns a negative result.
NoExceptionEscapes ==
  StoreFailed => (~last.raised /\ ~last.ok)

\* C19: an AcquireLock that fails on a store error in the session
\* get-or-create, the lock upsert or the commit leaves every WidgetLock row
\* and every UserSession row as it was before the call.
AcquireAllOrNothing ==
  [][(/\ CallStep("acquire")
      /\ "fault" \in DOMAIN last'
      /\ last'.fault \in AcquireStoreSteps)
     => (locks' = locks /\ sessions' = sessions)]_vars

\* C20: when the append of the audit event fails after the lock change has
\* been committed, AcquireLock returns success=true and ReleaseLock returns
\* true, and the committed lock state is kept.
AuditBestEffort ==
  [][(/\ CallStep("acquire") \/ CallStep("release")
      /\ "fault" \in DOMAIN last'
      /\ last'.fault \in AuditSteps)
     => last'.ok]_vars

\* C21: a StopEditing by a user with no active session on the dashboard
\* returns true, after a reaper cycle and after any number of earlier
\* StartEditing/StopEditing cycles of that user on that dashboard.
StopEditingTolerant ==
  [][(/\ CallStep("stop")
      /\ ActiveSessionsOf(sessions, last'.dashboard, last'.user) = {})
     => last'.ok]_vars

\* the last cycle of the cleanup job failed on a store error
CycleFailed == last.op = "cleanup_task" /\ last.fault # "none"

CycleSucceeded == last.op = "cleanup_task" /\ last.fault = "none"

\* C22: a cleanup cycle in which a store operation fails raises nothing out
\* of the scheduled task and leaves the cleanup service scheduled, and a
\* later cycle runs and succeeds.
ReaperCyclesIndependent ==
  /\ [][(last'.op = "cleanup_task" /\ last' # last)
        => (~last'.escaped /\ pc'["job"] = "scheduled")]_vars
  /\ [](CycleFailed => <>CycleSucceeded)

\* a cycle succeeded right after a cycle in which the store session could
\* not be opened and the service raised to the job
CycleAfterFailedCycle ==
  /\ CycleSucceeded
  /\ last.prev = "open"
  /\ pc["job"] = "scheduled"

\* C23: every AcquireLock that returns success=true for a requested lease
\* writes a lock row whose expires_at - locked_at is the request clamped to
\* [30, 300].
LeaseClamped ==
  [][\A u \in Users, w \in Widgets, dur \in RequestedLeases :
       (/\ CallStep("acquire") /\ last'.ok
        /\ AcquireLock(u, "d1", w, dur))
       => /\ locks'[w].expires_at - locks'[w].locked_at = Clamp(dur)
          /\ locks'[w].expires_at - locks'[w].locked_at >= MinLockDuration
          /\ locks'[w].expires_at - locks'[w].locked_at <= MaxLockDuration]_vars

\* C24: every lock listed by ListActiveSessions, and every status with
\* is_locked = TRUE that GetLockStatus builds on a cache miss, refers to a
\* row with is_active = TRUE and now < expires_at.
ReadersRecheckExpiry ==
  [][/\ CallStep("list") => \A w \in last'.listed : HeldLock(locks, w, now)
     /\ (/\ CallStep("status")
         /\ CacheGet(lockCache, StatusKey(last'.widget), now) = {}
         /\ last'.status.is_locked)
        => HeldLock(locks, last'.widget, now)]_vars

\* the number of times w stands in the list seq
Occurrences(seq, w) == Cardinality({i \in DOMAIN seq : seq[i] = w})

\* C25: an AcquireLock(D, W, U, L) that returns success=true at time t
\* leaves the row of W with user_id U, dashboard_id D, the id of U's one
\* active session on D, locked_at = last_heartbeat = t, expires_at = t + L
\* and is_active; W stands once in that session's locked_widgets; the
\* session id and expiry returned are the row's.
AcquirePostcondition ==
  [][\A u \in Users, d \in Dashboards, w \in Widgets, dur \in Leases :
       (CallStep("acquire") /\ last'.ok /\ AcquireLock(u, d, w, dur))
       => /\ w \in DOMAIN locks'
          /\ locks'[w].user_id = u
          /\ locks'[w].dashboard_id = d
          /\ ActiveSessionsOf(sessions', d, u) = {locks'[w].session_id}
          /\ locks'[w].locked_at = now
          /\ locks'[w].last_heartbeat = now
          /\ locks'[w].expires_at = now + dur
          /\ locks'[w].is_active
          /\ Occurrences(sessions'[locks'[w].session_id].locked_widgets, w) = 1
          /\ last'.session_id = locks'[w].session_id
          /\ last'.expires_at = locks'[w].expires_at]_vars

\* a user took over a widget whose lock, held by another user, had run out:
\* the other user's session still lists the widget
ExpiredLockTakenOver ==
  /\ last.op = "acquire" /\ last.ok
  /\ HeldBy(last.user, last.widget)
  /\ locks[last.widget].locked_at = now
  /\ \E s \in DOMAIN sessions :
       /\ sessions[s].user_id # last.user
       /\ last.widget \in Range(sessions[s].locked_widgets)

\* C26: an AcquireLock by a user other than the holder of the widget's
\* active, unexpired lock returns success=false with a message that names
\* the holder, and changes no WidgetLock row, no UserSession row and no
\* entry of the lock cache.
ConflictHasNoSideEffects ==
  [][(/\ CallStep("acquire")
      /\ HeldLock(locks, last'.widget, now)
      /\ locks[last'.widget].user_id # last'.user)
     => (/\ ~last'.ok
         /\ last'.named = locks[last'.widget].user_id
         /\ locks' = locks
         /\ sessions' = sessions
         /\ lockCache' = lockCache)]_vars

\* a user without any session was refused a widget another user holds, after
\* the cached lock had run out of its TTL
ConflictSeen ==
  /\ last.op = "acquire" /\ ~last.ok
  /\ HeldLock(locks, last.widget, now)
  /\ locks[last.widget].user_id # last.user
  /\ CacheGet(lockCache, last.widget, now) = {}
  /\ \A s \in DOMAIN sessions : sessions[s].user_id # last.user

\* what C27 demands of the step of a ReleaseLock by the holder, and of the
\* next call when it is another user's AcquireLock on the widget
ReleasedAndFree ==
  /\ ~locks'[last'.widget].is_active
  /\ \A s \in ActiveSessionsOf(sessions', last'.dashboard, last'.user) :
       last'.widget \notin Range(sessions'[s].locked_widgets)
  /\ CacheGet(lockCache', last'.widget, now) = {}
  /\ CacheGet(lockCache', StatusKey(last'.widget), now) = {}

AcquireAfterRelease ==
  (/\ CallStep("acquire")
   /\ last.op = "release" /\ last.ok
   /\ last'.widget = last.widget /\ last'.user # last.user
   /\ Addressed(locks, last)
   /\ locks[last.widget].user_id = last.user
   /\ ~locks[last.widget].is_active)
  => last'.ok

\* C27 as stated: after any ReleaseLock by the holder of the widget's
\* active lock that returns true, the row is inactive, the widget is in no
\* active session of the holder on that dashboard, the lock and status cache
\* entries are gone, and the next AcquireLock by another user succeeds.
ReleaseAlwaysFrees ==
  [][/\ (/\ CallStep("release") /\ last'.ok
         /\ HeldBy(last'.user, last'.widget))
        => ReleasedAndFree
     /\ AcquireAfterRelease]_vars

\* C27: after a ReleaseLock by the holder that names the dashboard of the
\* lock row and returns true, the row is inactive, the widget is in no
\* active session of the holder on that dashboard, the lock and status cache
\* entries are gone, and the next AcquireLock by another user succeeds
\* before the original expiry.
ReleaseFreesWidget ==
  [][/\ (/\ CallStep("release") /\ last'.ok
         /\ HeldBy(last'.user, last'.widget)
         /\ Addressed(locks, last'))
        => ReleasedAndFree
     /\ AcquireAfterRelease]_vars

\* the holder released its lock, on its dashboard, before the lease ran out
ReleasedBeforeExpiry ==
  /\ last.op = "release" /\ last.ok
  /\ Addressed(locks, last)
  /\ locks[last.widget].user_id = last.user
  /\ ~locks[last.widget].is_active
  /\ now < locks[last.widget].expires_at
  /\ ActiveSessionsOf(sessions, last.dashboard, last.user) # {}

\* C28: a ReleaseLock that names a dashboard other than the dashboard_id of
\* the widget's lock row changes no lock row and no session row, whoever
\* calls it.
CrossDashboardReleaseHarmless ==
  [][(/\ CallStep("release")
      /\ last'.widget \in DOMAIN locks
      /\ locks[last'.widget].dashboard_id # last'.dashboard)
     => (locks' = locks /\ sessions' = sessions)]_vars

\* the holder of a live lock called ReleaseLock with another dashboard
CrossDashboardReleaseSeen ==
  /\ last.op = "release"
  /\ HeldLock(locks, last.widget, now)
  /\ locks[last.widget].user_id = last.user
  /\ locks[last.widget].dashboard_id # last.dashboard
  /\ last.widget \in Range(sessions[locks[last.widget].session_id].locked_widgets)

\* C29: every RefreshLock that returns success=true leaves the row with an
\* expires_at, which is the expiresAt it returns, greater than or equal to
\* the row's expires_at before the call.
HeartbeatNeverShortens ==
  [][(CallStep("refresh") /\ last'.ok)
     => locks'[last'.widget].expires_at >= locks[last'.widget].expires_at]_vars

\* C30: the write of a RefreshLock call changes expires_at or last_heartbeat
\* only of a row that the caller owns at the moment of the write, and the
\* call returns success=true only for a lock the caller owns, however the
\* call is interleaved with other users' AcquireLock and ReleaseLock calls.
HeartbeatTouchesOwnLockOnly ==
  [][\A u \in Users :
       (pc[u] = "r_write" /\ pc'[u] = "done")
       => /\ locks'[tx[u].widget] # locks[tx[u].widget]
               => locks[tx[u].widget].user_id = u
          /\ tx'[u].result = "ok"
               => locks'[tx[u].widget].user_id = u]_vars


\* C31: after RunCleanup completes, no entry of the shared cache written
\* earlier (a lock entry, a status entry, a listing) is still readable.
CleanupInvalidatesCache ==
  [][CallStep("cleanup")
     => \A k \in DOMAIN lockCache : CacheGet(lockCache', k, now) = {}]_vars


\* C32: when an active session of (dashboard, user) exists, StartEditing
\* creates no row and the stored last_activity of that session, as later
\* store sessions see it, equals the time of the call.
StartEditingTouches ==
  [][(/\ CallStep("start")
      /\ ActiveSessionsOf(sessions, last'.dashboard, last'.user) # {}
      /\ last'.ok)
     => /\ DOMAIN sessions' = DOMAIN sessions
        /\ \A s \in ActiveSessionsOf(sessions, last'.dashboard, last'.user) :
             sessions'[s].last_activity = now]_vars


\* C33: for a user whose sessions on the dashboard are all deactivated,
\* RefreshEditing returns true and leaves exactly one active session of
\* that (dashboard, user) pair.
RefreshEditingRecovers ==
  [][(/\ CallStep("refresh_editing")
      /\ ActiveSessionsOf(sessions, last'.dashboard, last'.user) = {}
      /\ InactiveSessionsOf(sessions, last'.dashboard, last'.user) # {})
     => /\ last'.ok
        /\ Cardinality(ActiveSessionsOf(sessions', last'.dashboard,
                                        last'.user)) = 1]_vars


\* C34: after StopEditing(dashboard, user) returns true, no lock row of
\* that user on that dashboard is active in the store.
StopEditingReleasesLocks ==
  [][(CallStep("stop") /\ last'.ok)
     => \A w \in DOMAIN locks' :
          ~(/\ locks'[w].user_id = last'.user
            /\ locks'[w].dashboard_id = last'.dashboard
            /\ locks'[w].is_active)]_vars


\* C35: after every AcquireLock that returns success, the audit log that
\* later store sessions see holds a lock_acquired event of that dashboard,
\* widget and user.
AcquisitionsAudited ==
  [][(CallStep("acquire") /\ last'.ok)
     => [event_type |-> "lock_acquired", dashboard_id |-> last'.dashboard,
         widget_id |-> last'.widget, user_id |-> last'.user] \in events']_vars


\* C36: update_cleanup_interval(n) with n >= 10 called while the cleanup
\* service is running ends with the service running and its job scheduled
\* at interval n.
ReconfigureKeepsRunning ==
  [][(/\ CallStep("update_interval")
      /\ last'.n >= MinCleanupInterval
      /\ tx["svc"].is_running)
     => /\ tx'["svc"].is_running
        /\ tx'["svc"].cleanup_interval = last'.n
        /\ tx'["svc"].trigger = last'.n]_vars

\* C37: update_cleanup_interval(n) with n < 10 raises and leaves
\* cleanup_interval and the running state as they were, and
\* cleanup_interval is at least 10 in every reachable state.
IntervalLowerBound ==
  /\ [](tx["svc"].cleanup_interval >= MinCleanupInterval)
  /\ [][(CallStep("update_interval") /\ last'.n < MinCleanupInterval)
        => (last'.raised /\ tx'["svc"] = tx["svc"])]_vars

\* an interval below the minimum was asked of a running service that had
\* been given another interval than the default, and was refused
SmallIntervalRefused ==
  /\ last.op = "update_interval"
  /\ last.n < MinCleanupInterval
  /\ last.raised
  /\ last.was.cleanup_interval # DefaultCleanupInterval
  /\ tx["svc"].is_running


\* C38: in every reachable state each lock row's session_id refers to an
\* existing session row whose user_id and dashboard_id equal the lock
\* row's user_id and dashboard_id.
LockBelongsToOwnerSession ==
  \A w \in DOMAIN locks :
    /\ locks[w].session_id \in DOMAIN sessions
    /\ sessions[locks[w].session_id].user_id = locks[w].user_id
    /\ sessions[locks[w].session_id].dashboard_id = locks[w].dashboard_id


====
